---- MODULE Spec2Model ----
(***************************************************************************)
(* Model of flirt/eda/preprocessing/particleFilter.py: the state-space     *)
(* Model (random walk observed in Gaussian noise) and                      *)
(* ParticleFilter.__process__, which drives pyparticleest's                *)
(* Simulator.simulate(N, M, filter='PF', smoother='full',                  *)
(* meas_first=False) and returns Simulator.get_filtered_mean().            *)
(*                                                                         *)
(* Numbers.  Signal values live on an integer grid.  A float that may be   *)
(* NaN is a record [fin, v].  Log-densities are kept in units in which one *)
(* squared grid unit of error costs a factor 2 of likelihood, and without  *)
(* the additive constant -0.5*log(2*pi*cov): every consumer subtracts the  *)
(* maximum (pa.w -= max(pa.w)) or normalises, so the constant cancels.     *)
(* A weight is therefore 2^w for an integer log-weight w.                  *)
(*                                                                         *)
(* Randomness.  numpy's global generator np.random is the variable         *)
(* np_random; it is a deterministic stream (a small congruential           *)
(* generator stands for the Mersenne twister) that every draw advances.    *)
(***************************************************************************)
EXTENDS Integers, Sequences, FiniteSets, TLC

\* ---------------------------------------------------------------- bounds
MaxT == 2
MaxSeed == 3
MaxRuns == 2
MaxAmbient == 1

\* ---------------------------------------------------------------- floats
NaN == [fin |-> FALSE, v |-> 0]
Fin(n) == [fin |-> TRUE, v |-> n]
NumAdd(a, b) == IF a.fin /\ b.fin THEN Fin(a.v + b.v) ELSE NaN
NumSub(a, b) == IF a.fin /\ b.fin THEN Fin(a.v - b.v) ELSE NaN
AllFin(s) == \A k \in 1..Len(s) : s[k].fin

RECURSIVE Pow2(_)
Pow2(n) == IF n <= 0 THEN 1 ELSE 2 * Pow2(n - 1)

RECURSIVE SumSeq(_)
SumSeq(s) == IF s = <<>> THEN 0 ELSE Head(s) + SumSeq(Tail(s))

RECURSIVE MaxSeq(_)
MaxSeq(s) == IF Len(s) = 1 THEN s[1]
             ELSE LET m == MaxSeq(Tail(s)) IN IF s[1] >= m THEN s[1] ELSE m

RECURSIVE MinSeq(_)
MinSeq(s) == IF Len(s) = 1 THEN s[1]
             ELSE LET m == MinSeq(Tail(s)) IN IF s[1] <= m THEN s[1] ELSE m

\* numpy.max over a float array: NaN if any entry is NaN.
NpMax(w) == IF AllFin(w) THEN Fin(MaxSeq([k \in 1..Len(w) |-> w[k].v])) ELSE NaN

\* exp(w) up to a common positive factor, as integers: 2^(w[k] - min w).
ExpW(w) == LET lo == MinSeq([k \in 1..Len(w) |-> w[k].v])
           IN  [k \in 1..Len(w) |-> Pow2(w[k].v - lo)]

\* ------------------------------------------------------- numpy's generator
\* One step of the generator's state.
Lcg(x) == (5 * x + 3) % 32

RECURSIVE Advance(_, _)
Advance(x, n) == IF n <= 0 THEN x ELSE Advance(Lcg(x), n - 1)

\* The n raw outputs drawn from state x.
RECURSIVE Stream(_, _)
Stream(x, n) == IF n <= 0 THEN <<>> ELSE <<x>> \o Stream(Lcg(x), n - 1)

\* np.random.normal(0.0, scale, (n,)): raises ValueError for a negative scale
\* or a negative dimension and then draws nothing; otherwise n draws, here
\* the grid values 0 and 1.
NpRandomNormal(rng, scale, n) ==
    IF n < 0 \/ scale < 0
    THEN [err |-> TRUE, val |-> <<>>, rng |-> rng, drawn |-> 0]
    ELSE [err |-> FALSE,
          val |-> [k \in 1..n |-> Stream(rng, n)[k] \div 16],
          rng |-> Advance(rng, n),
          drawn |-> n]

\* np.random.rand(1): u = (2*raw + 1)/64 in [0, 1).
NpRandomRand(rng) == [raw |-> rng, rng |-> Lcg(rng)]

\* ------------------------------------------------------------ class Model
\* Model.__init__: copies of the three parameters.
ModelInit(P0, Q, R) == [P0 |-> P0, Q |-> Q, R |-> R]

\* Model.create_initial_estimate(N)
CreateInitialEstimate(m, N, rng) == NpRandomNormal(rng, m.P0, N)

\* Model.sample_process_noise(particles, u, t): one draw per particle.
SampleProcessNoise(m, particles, rng) == NpRandomNormal(rng, m.Q, Len(particles))

\* Model.update(particles, u, t, noise): `particles += noise` works in place
\* on the array it is given and returns None.  The result names what the
\* two arrays hold after the call and what the call returned.
\* (Faulty variant: the noise array is consumed as well.)
UpdateMutatesNoise(particles, noise) ==
    [particles |-> [k \in 1..Len(particles) |-> particles[k] + noise[k]],
     noise     |-> [k \in 1..Len(noise) |-> 0],
     ret       |-> [isNone |-> TRUE, val |-> <<>>]]

Update(particles, noise) ==
    [particles |-> [k \in 1..Len(particles) |-> particles[k] + noise[k]],
     noise     |-> noise,
     ret       |-> [isNone |-> TRUE, val |-> <<>>]]

\* kalman.lognormpdf_scalar(err, cov) / kalman.lognormpdf(err, cov)
LogNormPdf(err, cov) == IF err.fin THEN Fin(-((err.v * err.v) \div cov)) ELSE NaN

\* Model.measure(particles, y, t): one log-density per particle; the arrays
\* it reads are left as they were.
Measure(m, particles, y) ==
    [logyprob  |-> [k \in 1..Len(particles) |->
                       LogNormPdf(NumSub(Fin(particles[k]), y), m.R)],
     particles |-> particles,
     y         |-> y]

\* Model.logp_xnext_full(part, ..., future_trajs, find, ...): the transition
\* log-density from every particle of this step to the chosen next value.
LogpXnextFull(m, part, xnext) ==
    [logpxnext |-> [k \in 1..Len(part) |-> LogNormPdf(Fin(xnext - part[k]), m.Q)],
     part      |-> part]

\* --------------------------------------------------- class ParticleFilter
\* ParticleFilter.__init__: stores its five arguments, checks none.
PFInit(num_particles, num_smoothers, P0_variance, Q_variance, R_variance) ==
    [num_particles |-> num_particles, num_smoothers |-> num_smoothers,
     P0 |-> P0_variance, Q |-> Q_variance, R |-> R_variance]

ValidConfig(c) ==
    /\ c.num_particles > 0 /\ c.num_smoothers > 0
    /\ c.P0 > 0 /\ c.Q > 0 /\ c.R > 0

\* The configurations tried: valid ones, and one invalid field at a time.
Configs ==
    { PFInit(n, m, 1, 1, 1) : n \in {1, 2}, m \in {1, 2} }
      \cup { PFInit(-1, 2, 1, 1, 1), PFInit(2, 2, -1, 1, 1), PFInit(2, 2, 1, -1, 1) }

\* The input series: 1..MaxT samples, each 1, 2 or NaN, indexed by timestamps.
ObsVals == {Fin(1), Fin(2), NaN}
Inputs ==
    UNION { { [values |-> v, index |-> [k \in 1..T |-> 10 * k]] :
                v \in [1..T -> ObsVals] } : T \in 1..MaxT }


\* ------------------------------------------- pyparticleest, as called here
\* simulate(...) is called without `res`: the resampling threshold is the
\* library default 0.67 (effective particles / total particles).
ResPercent == 67

\* simulate(..., meas_first=False): `for i in range(len(self.y) - offset)` with
\* offset 0, one forward step per observation.
\* (Faulty variant: the loop bound of meas_first=True, offset 1.)
ForwardStepsMeasFirst(y) == Len(y) - 1

ForwardSteps(y) == Len(y)

\* ParticleApproximation(particles): log-weights uniform (log(1/N) each;
\* kept here relative to their maximum, so 0 each).
UniformW(n) == [k \in 1..n |-> Fin(0)]
ParticleApproximation(particles) == [part |-> particles, w |-> UniformW(Len(particles))]

\* ParticleApproximation.calc_Neff() < res * num, with Neff = 1/sum(wn^2)
\* for the normalised weights wn.  A NaN on the left makes `<` false.
NeffBelow(w, percent) ==
    IF ~AllFin(w) THEN FALSE
    ELSE LET V == ExpW(w)
             S == SumSeq(V)
             Q2 == SumSeq([k \in 1..Len(V) |-> V[k] * V[k]])
         IN  100 * S * S < percent * Len(w) * Q2

\* ParticleFilter.forward's gate: `self.res > 0 and pa.calc_Neff() < self.res * pa.num`
\* (Faulty variant: no gate, every step resamples.)
ShouldResampleAlways(ppa) == TRUE

ShouldResample(ppa) == ResPercent > 0 /\ NeffBelow(ppa.w, ResPercent)

\* filter.sample(w, n): systematic sampling, u = (range(n) + rand(1)) / n and
\* searchsorted(cumsum(w)/sum(w), u).  rand(1) is (2*raw + 1)/64.  On NaN
\* weights every comparison is false and searchsorted yields the first slot.
SampleOne(V, n, raw, k) ==
    LET S == SumSeq(V)
        C(j) == SumSeq(SubSeq(V, 1, j))
        hit == { j \in 1..Len(V) : 64 * n * C(j) >= (64 * (k - 1) + 2 * raw + 1) * S }
    IN  IF hit = {} THEN Len(V) ELSE CHOOSE j \in hit : \A h \in hit : j <= h

Sample(w, n, raw) ==
    IF AllFin(w) THEN [k \in 1..n |-> SampleOne(ExpW(w), n, raw, k)]
    ELSE [k \in 1..n |-> 1]

\* ParticleApproximation.resample(model, N): resampled particles, uniform weights.
Resample(ppa, raw) ==
    LET ind == Sample(ppa.w, Len(ppa.part), raw)
    IN  [pa |-> [part |-> [k \in 1..Len(ind) |-> ppa.part[ind[k]]],
                 w |-> UniformW(Len(ind))],
         ancestors |-> ind]

\* ParticleFilter.measure: pa.w = pa.w + model.measure(...); pa.w -= max(pa.w)
Reweight(w, logyprob) ==
    LET sum == [k \in 1..Len(w) |-> NumAdd(w[k], logyprob[k])]
        top == NpMax(sum)
    IN  [k \in 1..Len(w) |-> NumSub(sum[k], top)]

\* smoother.bsi_full for one trajectory: weights pa.w + logp_xnext_full(...),
\* shifted by their maximum, then one index sampled.
BsiFullOne(m, ppa, xnext, raw) ==
    LET lp == LogpXnextFull(m, ppa.part, xnext)
        w == Reweight(ppa.w, lp.logpxnext)
    IN  lp.part[Sample(w, 1, raw)[1]]

\* The backward pass from step t down to step 1, given the values `next`
\* chosen at step t+1; one rand(1) per trajectory and step.
RECURSIVE SmoothBack(_, _, _, _, _)
SmoothBack(m, traj, t, next, rng) ==
    IF t < 1 THEN [vals |-> <<>>, rng |-> rng]
    ELSE LET M == Len(next)
             raws == Stream(rng, M)
             here == [j \in 1..M |-> BsiFullOne(m, traj[t].pa, next[j], raws[j])]
             rest == SmoothBack(m, traj, t - 1, here, Advance(rng, M))
         IN  [vals |-> rest.vals \o <<here>>, rng |-> rest.rng]

\* ParticleTrajectory.perform_smoothing(M, method='full'): M indices sampled
\* from the last step's weights, then the backward pass.
PerformSmoothing(m, traj, M, rng) ==
    LET T1 == Len(traj)
        r == NpRandomRand(rng)
        ind == Sample(traj[T1].pa.w, M, r.raw)
        last == [j \in 1..M |-> traj[T1].pa.part[ind[j]]]
        back == SmoothBack(m, traj, T1 - 1, last, r.rng)
    IN  [straj |-> back.vals \o <<last>>, rng |-> back.rng,
         drawn |-> 1 + M * (T1 - 1)]

\* Simulator.get_filtered_mean(): one row per step of the trajectory, the
\* weighted mean sum(wn * part) of that step, as the fraction num/den.
MeanNaN == [fin |-> FALSE, num |-> 0, den |-> 1]
FilteredMeanAt(ppa) ==
    IF ~AllFin(ppa.w) THEN MeanNaN
    ELSE LET V == ExpW(ppa.w)
         IN  [fin |-> TRUE,
              num |-> SumSeq([k \in 1..Len(V) |-> V[k] * ppa.part[k]]),
              den |-> SumSeq(V)]

GetFilteredMean(traj) == [t \in 1..Len(traj) |-> FilteredMeanAt(traj[t].pa)]

\* Simulator.get_smoothed_mean() (never called by __process__): the
\* unweighted mean over the M trajectories, as the fraction num/den.
SmoothedMeanAt(vals) == [fin |-> TRUE, num |-> SumSeq(vals), den |-> Len(vals)]
GetSmoothedMean(st) == [t \in 1..Len(st) |-> SmoothedMeanAt(st[t])]

MeanEq(a, b) == IF a.fin /\ b.fin THEN a.num * b.den = b.num * a.den
                ELSE a.fin = b.fin

\* pd.Series(data=values, index=index): ValueError unless the lengths agree.
PdSeries(values, index) ==
    IF Len(values) = Len(index)
    THEN [outcome |-> "returned", values |-> values, index |-> index]
    ELSE [outcome |-> "ValueError", values |-> <<>>, index |-> <<>>]


\* ------------------------------------------------------------------ state
VARIABLES
    self,          \* the ParticleFilter object's fields
    data,          \* the caller's pd.Series: values and index
    np_random,     \* numpy's global generator
    seeded,        \* the seed given to np.random.seed since the last call ended, or -1
    calls,         \* calls of __process__ started
    ambient,       \* draws other code made from np.random
    pc,            \* where the current call of __process__ is
    eda, model, sim_y, pt, straj,      \* locals: eda, model, sim.y, sim.pt.traj, sim.straj
    pa, i, resampled, ancestors,       \* locals of ParticleTrajectory.forward
    vals_mean, result,
    stages,        \* the stages the current call went through, in order
    ndraws,        \* random values the current call has drawn
    ymeasured,     \* the observations handed to Model.measure, in order
    last_update,   \* the arrays before and after the last Model.update
    last_measure,  \* the arrays before and after the last Model.measure
    last_logp,     \* the arrays before and after the last Model.logp_xnext_full
    entry,         \* self, data and np_random as the current call found them
    runs           \* the calls that ended: seed, outcome, values computed

env == <<self, data, np_random, seeded, calls, ambient>>
locals == <<eda, model, sim_y, pt, straj, pa, i, resampled, ancestors, vals_mean, result>>
ghosts == <<stages, ndraws, ymeasured, last_update, last_measure, last_logp, entry, runs>>
vars == <<env, pc, locals, ghosts>>

Identity(n) == [k \in 1..n |-> k]
NoUpdate == [valid |-> FALSE, x_before |-> <<>>, noise_before |-> <<>>,
             x_after |-> <<>>, noise_after |-> <<>>,
             ret |-> [isNone |-> TRUE, val |-> <<>>]]
NoMeasure == [valid |-> FALSE, x_before |-> <<>>, x_after |-> <<>>,
              y_before |-> NaN, y_after |-> NaN, pt_before |-> <<>>, pt_after |-> <<>>]
NoLogp == [valid |-> FALSE, x_before |-> <<>>, x_after |-> <<>>,
           pt_before |-> <<>>, pt_after |-> <<>>]
NoResult == [outcome |-> "none", values |-> <<>>, index |-> <<>>]
Raised == [outcome |-> "ValueError", values |-> <<>>, index |-> <<>>]
NoEntry == [self |-> PFInit(0, 0, 0, 0, 0), data |-> [values |-> <<>>, index |-> <<>>],
            np_random |-> 0]

LocalsFresh ==
    /\ eda = <<>> /\ model = ModelInit(0, 0, 0) /\ sim_y = <<>> /\ pt = <<>>
    /\ straj = <<>> /\ pa = [part |-> <<>>, w |-> <<>>] /\ i = 0
    /\ resampled = FALSE /\ ancestors = <<>> /\ vals_mean = <<>> /\ result = NoResult
    /\ stages = <<>> /\ ndraws = 0 /\ ymeasured = <<>>
    /\ last_update = NoUpdate /\ last_measure = NoMeasure /\ last_logp = NoLogp
    /\ entry = NoEntry

Init ==
    /\ self \in Configs
    /\ data \in Inputs
    /\ np_random \in 0..MaxSeed
    /\ seeded = np_random
    /\ calls = 0 /\ ambient = 0
    /\ pc = "idle"
    /\ LocalsFresh
    /\ runs = <<>>

\* ------------------------------------------------------------- environment
\* Other code calls np.random.seed(s), with a seed an earlier call ran under
\* (any other seed is an initial state of its own).
Seed ==
    /\ pc = "idle" /\ seeded = -1 /\ calls < MaxRuns
    /\ \E k \in 1..Len(runs) :
          /\ runs[k].seeded >= 0
          /\ np_random' = runs[k].seeded /\ seeded' = runs[k].seeded
    /\ UNCHANGED <<self, data, calls, ambient, pc, locals, ghosts>>

\* Other code draws one number from np.random.
AmbientDraw ==
    /\ pc = "idle" /\ ambient < MaxAmbient /\ calls < MaxRuns
    /\ np_random' = Lcg(np_random)
    /\ ambient' = ambient + 1
    /\ UNCHANGED <<self, data, seeded, calls, pc, locals, ghosts>>

\* The caller enters __process__(data).
Call ==
    /\ pc = "idle" /\ calls < MaxRuns
    /\ calls' = calls + 1
    /\ entry' = [self |-> self, data |-> data, np_random |-> np_random]
    /\ pc' = "ravel"
    /\ UNCHANGED <<self, data, np_random, seeded, ambient, locals,
                   stages, ndraws, ymeasured, last_update, last_measure, last_logp, runs>>

\* ------------------------------------------- ParticleFilter.__process__
\* eda = np.ravel(data); model = Model(P0, Q, R); sim = Simulator(model, None, eda)
Ravel ==
    /\ pc = "ravel"
    /\ eda' = data.values
    /\ model' = ModelInit(self.P0, self.Q, self.R)
    /\ sim_y' = data.values
    /\ pc' = "init"
    /\ UNCHANGED <<env, pt, straj, pa, i, resampled, ancestors, vals_mean, result, ghosts>>

\* simulate: ParticleTrajectory(model, num_part, res) draws the initial
\* particles; they are the first step of the trajectory.
InitParticles ==
    /\ pc = "init"
    /\ LET r == CreateInitialEstimate(model, self.num_particles, np_random)
       IN  IF r.err
           THEN /\ result' = Raised /\ pc' = "done"
                /\ UNCHANGED <<np_random, pt, i, stages, ndraws>>
           ELSE /\ pt' = <<[pa |-> ParticleApproximation(r.val),
                            ancestors |-> Identity(Len(r.val))]>>
                /\ np_random' = r.rng
                /\ ndraws' = ndraws + r.drawn
                /\ stages' = Append(stages, "init")
                /\ i' = 0
                /\ pc' = IF 0 < ForwardSteps(sim_y) THEN "resample" ELSE "smooth"
                /\ UNCHANGED result
    /\ UNCHANGED <<self, data, seeded, calls, ambient, eda, model, sim_y, straj, pa,
                   resampled, ancestors, vals_mean,
                   ymeasured, last_update, last_measure, last_logp, entry, runs>>

\* ParticleFilter.forward, first part: the last step's particles are
\* resampled when the gate says so ...
ResampleStep ==
    /\ pc = "resample"
    /\ ShouldResample(pt[Len(pt)].pa)
    /\ LET r == NpRandomRand(np_random)
           rs == Resample(pt[Len(pt)].pa, r.raw)
       IN  /\ pa' = rs.pa
           /\ ancestors' = rs.ancestors
           /\ np_random' = r.rng
    /\ resampled' = TRUE
    /\ ndraws' = ndraws + 1
    /\ stages' = Append(stages, "resample")
    /\ pc' = "propagate"
    /\ UNCHANGED <<self, data, seeded, calls, ambient, eda, model, sim_y, pt, straj, i,
                   vals_mean, result, ymeasured, last_update, last_measure, last_logp, entry, runs>>

\* ... and are taken as they are otherwise.
KeepStep ==
    /\ pc = "resample"
    /\ ~ShouldResample(pt[Len(pt)].pa)
    /\ pa' = pt[Len(pt)].pa
    /\ ancestors' = Identity(Len(pt[Len(pt)].pa.part))
    /\ resampled' = FALSE
    /\ pc' = "propagate"
    /\ UNCHANGED <<env, eda, model, sim_y, pt, straj, i, vals_mean, result, ghosts>>

\* ParticleFilter.update: v = model.sample_process_noise(...);
\* model.update(particles, u, t, v)
Propagate ==
    /\ pc = "propagate"
    /\ LET v == SampleProcessNoise(model, pa.part, np_random)
           up == Update(pa.part, v.val)
       IN  IF v.err
           THEN /\ result' = Raised /\ pc' = "done"
                /\ UNCHANGED <<np_random, pa, stages, ndraws, last_update>>
           ELSE /\ pa' = [pa EXCEPT !.part = up.particles]
                /\ np_random' = v.rng
                /\ ndraws' = ndraws + v.drawn
                /\ stages' = Append(stages, "propagate")
                /\ last_update' = [valid |-> TRUE, x_before |-> pa.part,
                                   noise_before |-> v.val, x_after |-> up.particles,
                                   noise_after |-> up.noise, ret |-> up.ret]
                /\ pc' = "weight"
                /\ UNCHANGED result
    /\ UNCHANGED <<self, data, seeded, calls, ambient, eda, model, sim_y, pt, straj, i,
                   resampled, ancestors, vals_mean, ymeasured, last_measure, last_logp, entry, runs>>

\* ParticleFilter.measure against y[i], then the step joins the trajectory
\* and the loop `for i in range(len(self.y))` moves on.
Weight ==
    /\ pc = "weight"
    /\ LET ms == Measure(model, pa.part, sim_y[i + 1])
           npa == [part |-> ms.particles, w |-> Reweight(pa.w, ms.logyprob)]
       IN  /\ pa' = npa
           /\ pt' = Append(pt, [pa |-> npa, ancestors |-> ancestors])
           /\ sim_y' = [sim_y EXCEPT ![i + 1] = ms.y]
           /\ last_measure' = [valid |-> TRUE, x_before |-> pa.part,
                               x_after |-> ms.particles, y_before |-> sim_y[i + 1],
                               y_after |-> ms.y, pt_before |-> pt,
                               pt_after |-> SubSeq(pt', 1, Len(pt))]
    /\ ymeasured' = Append(ymeasured, sim_y[i + 1])
    /\ stages' = Append(stages, "weight")
    /\ i' = i + 1
    /\ pc' = IF i + 1 < ForwardSteps(sim_y) THEN "resample" ELSE "smooth"
    /\ UNCHANGED <<env, eda, model, straj, resampled, ancestors, vals_mean, result,
                   ndraws, last_update, last_logp, entry, runs>>

\* simulate, last part: self.straj = self.pt.perform_smoothing(num_traj, 'full')
Smooth ==
    /\ pc = "smooth"
    /\ UNCHANGED <<self, data, seeded, calls, ambient, eda, model, sim_y, pt, pa, i,
                   resampled, ancestors, vals_mean, result,
                   ymeasured, last_update, last_measure, entry, runs>>
    /\ LET sm == PerformSmoothing(model, pt, self.num_smoothers, np_random)
       IN  /\ straj' = sm.straj
           /\ np_random' = sm.rng
           /\ ndraws' = ndraws + sm.drawn
           /\ last_logp' =
                IF Len(pt) < 2 THEN NoLogp
                ELSE [valid |-> TRUE, x_before |-> pt[1].pa.part,
                      x_after |-> LogpXnextFull(model, pt[1].pa.part,
                                                sm.straj[2][self.num_smoothers]).part,
                      pt_before |-> pt, pt_after |-> pt']
    /\ stages' = Append(stages, "smooth")
    /\ pc' = "mean"

\* vals_mean = sim.get_filtered_mean(); particle_filtered = vals_mean[:, 0]
FilteredMean ==
    /\ pc = "mean"
    /\ vals_mean' = GetFilteredMean(pt)
    /\ pc' = "series"
    /\ UNCHANGED <<env, eda, model, sim_y, pt, straj, pa, i, resampled, ancestors,
                   result, ghosts>>

\* return pd.Series(data=particle_filtered, index=data.index, name='filtered_eda')
MakeSeries ==
    /\ pc = "series"
    /\ result' = PdSeries(vals_mean, data.index)
    /\ pc' = "done"
    /\ UNCHANGED <<env, eda, model, sim_y, pt, straj, pa, i, resampled, ancestors,
                   vals_mean, ghosts>>

\* The call ends (a series or an exception reaches the caller); its locals go.
Return ==
    /\ pc = "done"
    /\ runs' = Append(runs, [seeded |-> seeded, outcome |-> result.outcome,
                             out |-> vals_mean, len |-> Len(result.values)])
    /\ seeded' = -1
    /\ pc' = "idle"
    /\ eda' = <<>> /\ model' = ModelInit(0, 0, 0) /\ sim_y' = <<>> /\ pt' = <<>>
    /\ straj' = <<>> /\ pa' = [part |-> <<>>, w |-> <<>>] /\ i' = 0
    /\ resampled' = FALSE /\ ancestors' = <<>> /\ vals_mean' = <<>> /\ result' = NoResult
    /\ stages' = <<>> /\ ndraws' = 0 /\ ymeasured' = <<>>
    /\ last_update' = NoUpdate /\ last_measure' = NoMeasure /\ last_logp' = NoLogp
    /\ entry' = NoEntry
    /\ UNCHANGED <<self, data, np_random, calls, ambient>>

Next ==
    \/ Seed \/ AmbientDraw \/ Call
    \/ Ravel \/ InitParticles \/ ResampleStep \/ KeepStep \/ Propagate \/ Weight
    \/ Smooth \/ FilteredMean \/ MakeSeries \/ Return

Spec == Init /\ [][Next]_vars


\* ----------------------------------------------------------------- claims
InForward == pc \in {"resample", "propagate", "weight", "smooth"}
Has(seq, x) == \E k \in 1..Len(seq) : seq[k] = x
NotResample(x) == x # "resample"
AddSeq(a, b) == [k \in 1..Len(a) |-> a[k] + b[k]]

RECURSIVE Cycles(_, _)
Cycles(c, n) == IF n <= 0 THEN <<>> ELSE c \o Cycles(c, n - 1)

MeansEq(a, b) == Len(a) = Len(b) /\ \A t \in 1..Len(a) : MeanEq(a[t], b[t])

\* C1: a call with a valid configuration ends by returning a series with
\* exactly as many values as the input has, under the input's own index.
C1_ShapePreserved ==
    (pc = "done" /\ ValidConfig(self) /\ AllFin(data.values))
        => /\ result.outcome = "returned"
           /\ Len(result.values) = Len(data.values)
           /\ result.index = data.index

\* C2: the values __process__ hands to the returned series are, step for
\* step, the unweighted mean of num_smoothers backward trajectories.
C2_ReturnsSmoothedMean ==
    (pc = "series" /\ AllFin(data.values))
        => /\ \A t \in 1..Len(straj) : Len(straj[t]) = self.num_smoothers
           /\ MeansEq(vals_mean, GetSmoothedMean(straj))

\* C3: under an invalid configuration the call ends in an error and no
\* random value has been drawn before it.
C3_InvalidConfigFailsBeforeSampling ==
    ~ValidConfig(self)
        => /\ ndraws = 0
           /\ pc = "done" => result.outcome = "ValueError"

\* C4: an input holding a non-finite value is rejected before the filter
\* runs: Model.measure never sees the value and no series is returned.
C4_NonFiniteRejected ==
    ~AllFin(data.values)
        => /\ AllFin(ymeasured)
           /\ result.outcome # "returned"

\* C5: two calls made under the same seed (same object, same input) compute
\* the same values, whatever else drew from the generator meanwhile.
C5_SeededRunsAgree ==
    \A a \in 1..Len(runs), b \in 1..Len(runs) :
        (runs[a].seeded >= 0 /\ runs[a].seeded = runs[b].seeded)
            => /\ runs[a].outcome = runs[b].outcome
               /\ MeansEq(runs[a].out, runs[b].out)

\* C6: when a call ends, everything but its result is as the call found it:
\* the input, the object's fields, and the state later calls draw from.
C6_NoEffectBeyondResult ==
    pc = "done"
        => /\ data = entry.data
           /\ self = entry.self
           /\ np_random = entry.np_random

C9_ParticleSetValid ==
    InForward
        => /\ \A t \in 1..Len(pt) :
                /\ Len(pt[t].pa.part) = self.num_particles
                /\ Len(pt[t].pa.w) = self.num_particles
                /\ AllFin(pt[t].pa.w)
           /\ last_update.valid
                => Len(last_update.noise_before) = self.num_particles

\* C10 (as claimed): the transition returns x + noise and leaves both of its
\* arrays as they were; measure and the transition density leave theirs.
C10_ModelOperationsPure ==
    /\ last_update.valid
         => /\ ~last_update.ret.isNone
            /\ last_update.ret.val = AddSeq(last_update.x_before, last_update.noise_before)
            /\ last_update.x_after = last_update.x_before
            /\ last_update.noise_after = last_update.noise_before
    /\ last_measure.valid
         => /\ last_measure.x_after = last_measure.x_before
            /\ last_measure.y_after = last_measure.y_before
            /\ last_measure.pt_after = last_measure.pt_before

\* C10 (amended): Model.update adds the noise to the particle array in place
\* and returns nothing, leaving the noise array as it was; measure leaves
\* the particles, the observation and the recorded history as they were,
\* and the transition density leaves the particles and the history.
C10_UpdateInPlaceOthersPure ==
    /\ last_update.valid
         => /\ last_update.ret.isNone
            /\ last_update.x_after = AddSeq(last_update.x_before, last_update.noise_before)
            /\ last_update.noise_after = last_update.noise_before
    /\ last_measure.valid
         => /\ last_measure.x_after = last_measure.x_before
            /\ last_measure.y_after = last_measure.y_before
            /\ last_measure.pt_after = last_measure.pt_before
    /\ last_logp.valid
         => /\ last_logp.x_after = last_logp.x_before
            /\ last_logp.pt_after = last_logp.pt_before

C10_Witness ==
    /\ last_update.valid /\ last_measure.valid /\ last_logp.valid
    /\ last_update.x_after # last_update.x_before

====
